---- MODULE Spec2Model ----
(***************************************************************************)
(* rust_toolkit::array -- chunk, count_by, group_by, key_by, remove, uniq, *)
(* each as a free function and as a method of an iterator extension trait. *)
(*                                                                         *)
(* One invocation is modelled at a time: a call action binds the arguments *)
(* and enters the body, a loop action runs one round of the body's loop,   *)
(* and the function returns (or panics) into `ret`.  The loop bodies are   *)
(* operators, and each function is also given as the operator obtained by  *)
(* iterating its loop body to the end of the input.                        *)
(***************************************************************************)
EXTENDS Integers, Sequences, FiniteSets, Bags, TLC

\* ---- bounds of the model ------------------------------------------------
MaxLen  == 4      \* longest input sequence
MaxElem == 3      \* elements are 1..MaxElem
MaxKey  == 1      \* keys are 0..MaxKey
MaxSize == 3      \* chunk sizes are 0..MaxSize

Elems == 1..MaxElem
Keys  == 0..MaxKey
Sizes == 0..MaxSize

RECURSIVE SeqsUpTo(_)
SeqsUpTo(n) == IF n = 0 THEN {<<>>}
               ELSE SeqsUpTo(n - 1) \cup [1..n -> Elems]
Inputs     == SeqsUpTo(MaxLen)
Resolvers  == [Elems -> Keys]
Predicates == [Elems -> BOOLEAN]

\* ---- values shared by the operations ------------------------------------
\* A call either returns a value or unwinds with a panic message.
Returned(v)   == [ok |-> TRUE,  value |-> v]
Panicked(msg) == [ok |-> FALSE, value |-> msg]
NoRet         == [ok |-> FALSE, value |-> ""]
SameOutcome(a, b) == a.ok = b.ok /\ (a.ok => a.value = b.value)

\* std::collections::HashMap, as a function on the set of its keys.
HashMap_new == [k \in {} |-> 0]
HashMap_insert(m, k, v) ==
    [j \in (DOMAIN m) \cup {k} |-> IF j = k THEN v ELSE m[j]]

\* Arguments a call does not take stay at these values.
NoResolver  == [x \in Elems |-> 0]
NoPredicate == [x \in Elems |-> FALSE]

Min(a, b) == IF a < b THEN a ELSE b

VARIABLES
    pc,                     \* "idle" | "loop" | "done" | "panicked"
    op,                     \* the operation called
    method,                 \* "fn": free function, "ext": extension method
    items,                  \* the input sequence as the caller passed it
    size,                   \* chunk's size argument
    key_resolver,           \* count_by / group_by / key_by's resolver
    should_remove_element,  \* remove's predicate
    iter,                   \* what the input iterator has yet to yield
    chunks,                 \* chunk: the chunks pushed so far
    map,                    \* count_by / group_by / key_by: the HashMap
    removed, kept,          \* remove: partition's two vectors
    seen, result,           \* uniq: the HashSet and the output Vec
    ret,                    \* the outcome handed to the caller
    taken,                  \* the items the iterator has yielded, in order
    evals                   \* the items the closure was called on, in order

vars == <<pc, op, method, items, size, key_resolver, should_remove_element,
          iter, chunks, map, removed, kept, seen, result, ret,
          taken, evals>>

locals == <<chunks, map, removed, kept, seen, result>>

Init ==
    /\ pc = "idle"
    /\ op = "none"
    /\ method = "none"
    /\ items = <<>>
    /\ size = 0
    /\ key_resolver = NoResolver
    /\ should_remove_element = NoPredicate
    /\ iter = <<>>
    /\ chunks = <<>>
    /\ map = HashMap_new
    /\ removed = <<>>
    /\ kept = <<>>
    /\ seen = {}
    /\ result = <<>>
    /\ ret = NoRet
    /\ taken = <<>>
    /\ evals = <<>>

\* Entering a body: the arguments are bound, the locals are fresh and the
\* iterator is at the start of the input.
Enter(o, m, xs, n, f, p) ==
    /\ op' = o
    /\ method' = m
    /\ items' = xs
    /\ size' = n
    /\ key_resolver' = f
    /\ should_remove_element' = p
    /\ iter' = xs
    /\ UNCHANGED <<locals, taken, evals>>

Return(v) ==
    /\ pc' = "done"
    /\ ret' = Returned(v)

\* ---- chunk ---------------------------------------------------------------
\* The method without its assertion: size 0 falls through to the loop.
ChunkExt_chunk_assert_missing(n) == TRUE

\* assert!(size > 0, "size must be greater than 0")
chunk_assert(n) == n > 0
ChunkExt_chunk_assert(n) == n > 0

\* take(size + 1): a part one item too long.
chunk_part_one_more(it, n) == SubSeq(it, 1, Min(n + 1, Len(it)))

\* An emptiness test that pulls an item off the iterator and drops it.
chunk_rest_drops_one(it, n) == SubSeq(it, Min(n, Len(it)) + 2, Len(it))

\* take() on a fresh iterator each round, without by_ref: the input
\* iterator never advances.
chunk_rest_stuck(it, n) == it

\* iter.by_ref().take(size).collect(): up to `size` items from the front,
\* and what the iterator is left with.
chunk_part(it, n) == SubSeq(it, 1, Min(n, Len(it)))
chunk_rest(it, n) == SubSeq(it, Min(n, Len(it)) + 1, Len(it))
ChunkExt_chunk_part(it, n) == SubSeq(it, 1, Min(n, Len(it)))
ChunkExt_chunk_rest(it, n) == SubSeq(it, Min(n, Len(it)) + 1, Len(it))

\* The loop of the free function, run to its break.
RECURSIVE chunk_loop(_, _, _)
chunk_loop(it, n, cs) ==
    LET part == chunk_part(it, n)
    IN  IF part = <<>> THEN cs
        ELSE chunk_loop(chunk_rest(it, n), n, Append(cs, part))

chunk(xs, n) ==
    IF ~chunk_assert(n) THEN Panicked("size must be greater than 0")
    ELSE Returned(chunk_loop(xs, n, <<>>))

RECURSIVE ChunkExt_chunk_loop(_, _, _)
ChunkExt_chunk_loop(it, n, cs) ==
    LET part == ChunkExt_chunk_part(it, n)
    IN  IF part = <<>> THEN cs
        ELSE ChunkExt_chunk_loop(ChunkExt_chunk_rest(it, n), n, Append(cs, part))

ChunkExt_chunk(self, n) ==
    IF ~ChunkExt_chunk_assert(n) THEN Panicked("size must be greater than 0")
    ELSE Returned(ChunkExt_chunk_loop(self, n, <<>>))

\* A failed assertion unwinds to the caller from where it stands.
Panic(msg) ==
    /\ pc' = "panicked"
    /\ ret' = Panicked(msg)

\* Entering a loop: nothing is handed to the caller yet.
Loop ==
    /\ pc' = "loop"
    /\ ret' = NoRet

\* chunk(items, size): the assertion, then the iterator and the empty Vec.
CallChunk ==
    /\ pc = "idle"
    /\ \E xs \in Inputs, n \in Sizes :
            /\ Enter("chunk", "fn", xs, n, NoResolver, NoPredicate)
            /\ IF chunk_assert(n) THEN Loop
               ELSE Panic("size must be greater than 0")

\* items.into_iter().chunk(size)
CallChunkExt ==
    /\ pc = "idle"
    /\ \E xs \in Inputs, n \in Sizes :
            /\ Enter("chunk", "ext", xs, n, NoResolver, NoPredicate)
            /\ IF ChunkExt_chunk_assert(n) THEN Loop
               ELSE Panic("size must be greater than 0")

\* One round of the free function's loop.
ChunkRound ==
    /\ pc = "loop" /\ op = "chunk" /\ method = "fn"
    /\ LET part == chunk_part(iter, size)
       IN  /\ iter' = chunk_rest(iter, size)
           /\ taken' = taken \o part
           /\ IF part = <<>>
              THEN /\ Return(chunks)
                   /\ UNCHANGED chunks
              ELSE /\ chunks' = Append(chunks, part)
                   /\ UNCHANGED <<pc, ret>>
    /\ UNCHANGED evals
    /\ UNCHANGED <<op, method, items, size, key_resolver,
                   should_remove_element, map, removed, kept, seen, result>>

\* One round of the extension method's loop.
ChunkExtRound ==
    /\ pc = "loop" /\ op = "chunk" /\ method = "ext"
    /\ LET part == ChunkExt_chunk_part(iter, size)
       IN  /\ iter' = ChunkExt_chunk_rest(iter, size)
           /\ taken' = taken \o part
           /\ IF part = <<>>
              THEN /\ Return(chunks)
                   /\ UNCHANGED chunks
              ELSE /\ chunks' = Append(chunks, part)
                   /\ UNCHANGED <<pc, ret>>
    /\ UNCHANGED evals
    /\ UNCHANGED <<op, method, items, size, key_resolver,
                   should_remove_element, map, removed, kept, seen, result>>

\* ---- count_by ------------------------------------------------------------
\* or_insert(0): a key's first element is not counted.
count_by_body_from_zero(m, key) ==
    IF key \in DOMAIN m THEN [m EXCEPT ![key] = @ + 1]
    ELSE HashMap_insert(m, key, 0)

\* let key = key_resolver(&item): one call of the closure on the item.
count_by_key(f, item, ev) == [key |-> f[item], evals |-> Append(ev, item)]

\* map.entry(key).and_modify(|count| *count += 1).or_insert(1)
count_by_body(m, key) ==
    IF key \in DOMAIN m THEN [m EXCEPT ![key] = @ + 1]
    ELSE HashMap_insert(m, key, 1)

RECURSIVE count_by_loop(_, _, _)
count_by_loop(it, f, m) ==
    IF it = <<>> THEN m
    ELSE count_by_loop(Tail(it), f, count_by_body(m, f[Head(it)]))

count_by(xs, f) == Returned(count_by_loop(xs, f, HashMap_new))

\* The method hands `self` and the resolver to the free function.
CountByExt_count_by(self, f) == count_by(self, f)

CallCountBy ==
    /\ pc = "idle"
    /\ \E xs \in Inputs, f \in Resolvers :
            /\ Enter("count_by", "fn", xs, 0, f, NoPredicate)
            /\ Loop

CallCountByExt ==
    /\ pc = "idle"
    /\ \E xs \in Inputs, f \in Resolvers :
            /\ Enter("count_by", "ext", xs, 0, f, NoPredicate)
            /\ Loop

\* One round of `for item in items`.
CountByRound ==
    /\ pc = "loop" /\ op = "count_by"
    /\ IF iter = <<>>
       THEN /\ Return(map)
            /\ UNCHANGED <<iter, map, taken, evals>>
       ELSE LET k == count_by_key(key_resolver, Head(iter), evals)
            IN  /\ iter' = Tail(iter)
                /\ taken' = Append(taken, Head(iter))
                /\ evals' = k.evals
                /\ map' = count_by_body(map, k.key)
                /\ UNCHANGED <<pc, ret>>
    /\ UNCHANGED <<op, method, items, size, key_resolver,
                   should_remove_element, chunks, removed, kept, seen, result>>

\* ---- group_by ------------------------------------------------------------
\* map.insert(key, vec![item]): a key's bucket is replaced, not extended.
group_by_body_overwrite(m, key, item) == HashMap_insert(m, key, <<item>>)

\* insert(0, item): the method's bucket grows at the front.
GroupByExt_group_by_body_prepend(m, key, item) ==
    LET m1 == IF key \in DOMAIN m THEN m ELSE HashMap_insert(m, key, <<>>)
    IN  [m1 EXCEPT ![key] = <<item>> \o @]

\* A lookup and an insert that each call the resolver on the item.
group_by_key_twice(f, item, ev) ==
    [key |-> f[item], evals |-> Append(Append(ev, item), item)]

\* let key = key_resolver(&item): one call of the closure on the item.
group_by_key(f, item, ev) == [key |-> f[item], evals |-> Append(ev, item)]
GroupByExt_group_by_key(f, item, ev) ==
    [key |-> f[item], evals |-> Append(ev, item)]

\* map.entry(key).or_insert(vec![]).push(item)
group_by_body(m, key, item) ==
    LET m1 == IF key \in DOMAIN m THEN m ELSE HashMap_insert(m, key, <<>>)
    IN  [m1 EXCEPT ![key] = Append(@, item)]

GroupByExt_group_by_body(m, key, item) ==
    LET m1 == IF key \in DOMAIN m THEN m ELSE HashMap_insert(m, key, <<>>)
    IN  [m1 EXCEPT ![key] = Append(@, item)]

RECURSIVE group_by_loop(_, _, _)
group_by_loop(it, f, m) ==
    IF it = <<>> THEN m
    ELSE group_by_loop(Tail(it), f, group_by_body(m, f[Head(it)], Head(it)))

group_by(xs, f) == Returned(group_by_loop(xs, f, HashMap_new))

RECURSIVE GroupByExt_group_by_loop(_, _, _)
GroupByExt_group_by_loop(it, f, m) ==
    IF it = <<>> THEN m
    ELSE GroupByExt_group_by_loop(Tail(it), f,
             GroupByExt_group_by_body(m, f[Head(it)], Head(it)))

GroupByExt_group_by(self, f) ==
    Returned(GroupByExt_group_by_loop(self, f, HashMap_new))

CallGroupBy ==
    /\ pc = "idle"
    /\ \E xs \in Inputs, f \in Resolvers :
            /\ Enter("group_by", "fn", xs, 0, f, NoPredicate)
            /\ Loop

CallGroupByExt ==
    /\ pc = "idle"
    /\ \E xs \in Inputs, f \in Resolvers :
            /\ Enter("group_by", "ext", xs, 0, f, NoPredicate)
            /\ Loop

GroupByRound ==
    /\ pc = "loop" /\ op = "group_by" /\ method = "fn"
    /\ IF iter = <<>>
       THEN /\ Return(map)
            /\ UNCHANGED <<iter, map, taken, evals>>
       ELSE LET k == group_by_key(key_resolver, Head(iter), evals)
            IN  /\ iter' = Tail(iter)
                /\ taken' = Append(taken, Head(iter))
                /\ evals' = k.evals
                /\ map' = group_by_body(map, k.key, Head(iter))
                /\ UNCHANGED <<pc, ret>>
    /\ UNCHANGED <<op, method, items, size, key_resolver,
                   should_remove_element, chunks, removed, kept, seen, result>>

GroupByExtRound ==
    /\ pc = "loop" /\ op = "group_by" /\ method = "ext"
    /\ IF iter = <<>>
       THEN /\ Return(map)
            /\ UNCHANGED <<iter, map, taken, evals>>
       ELSE LET k == GroupByExt_group_by_key(key_resolver, Head(iter), evals)
            IN  /\ iter' = Tail(iter)
                /\ taken' = Append(taken, Head(iter))
                /\ evals' = k.evals
                /\ map' = GroupByExt_group_by_body(map, k.key, Head(iter))
                /\ UNCHANGED <<pc, ret>>
    /\ UNCHANGED <<op, method, items, size, key_resolver,
                   should_remove_element, chunks, removed, kept, seen, result>>

\* ---- key_by --------------------------------------------------------------
\* entry(key).or_insert(item): the first element of a key stays.
key_by_body_first_wins(m, key, item) ==
    IF key \in DOMAIN m THEN m ELSE HashMap_insert(m, key, item)

\* A fold that keeps the smaller of the old and the new element of a key.
key_by_body_keeps_least(m, key, item) ==
    IF key \in DOMAIN m /\ m[key] < item THEN m
    ELSE HashMap_insert(m, key, item)

\* let key = key_resolver(&item): one call of the closure on the item.
key_by_key(f, item, ev) == [key |-> f[item], evals |-> Append(ev, item)]

\* .map(|item| (key_resolver(&item), item)).collect(): HashMap's FromIterator
\* inserts the pairs in iteration order, an insert replacing the old value.
key_by_body(m, key, item) == HashMap_insert(m, key, item)

RECURSIVE key_by_loop(_, _, _)
key_by_loop(it, f, m) ==
    IF it = <<>> THEN m
    ELSE key_by_loop(Tail(it), f, key_by_body(m, f[Head(it)], Head(it)))

key_by(xs, f) == Returned(key_by_loop(xs, f, HashMap_new))

KeyByExt_key_by(self, f) == key_by(self, f)

CallKeyBy ==
    /\ pc = "idle"
    /\ \E xs \in Inputs, f \in Resolvers :
            /\ Enter("key_by", "fn", xs, 0, f, NoPredicate)
            /\ Loop

CallKeyByExt ==
    /\ pc = "idle"
    /\ \E xs \in Inputs, f \in Resolvers :
            /\ Enter("key_by", "ext", xs, 0, f, NoPredicate)
            /\ Loop

KeyByRound ==
    /\ pc = "loop" /\ op = "key_by"
    /\ IF iter = <<>>
       THEN /\ Return(map)
            /\ UNCHANGED <<iter, map, taken, evals>>
       ELSE LET k == key_by_key(key_resolver, Head(iter), evals)
            IN  /\ iter' = Tail(iter)
                /\ taken' = Append(taken, Head(iter))
                /\ evals' = k.evals
                /\ map' = key_by_body(map, k.key, Head(iter))
                /\ UNCHANGED <<pc, ret>>
    /\ UNCHANGED <<op, method, items, size, key_resolver,
                   should_remove_element, chunks, removed, kept, seen, result>>

\* ---- remove --------------------------------------------------------------
\* partition(|item| should_remove_element(item)): one call per item.
remove_test(p, item, ev) == [remove |-> p[item], evals |-> Append(ev, item)]

\* Iterator::partition: the first vector takes the items the closure accepts,
\* the second the others; the closure is should_remove_element, and the two
\* vectors are bound to (removed, kept).
remove_body(rm, kp, item, p) ==
    IF p[item] THEN [removed |-> Append(rm, item), kept |-> kp]
    ELSE [removed |-> rm, kept |-> Append(kp, item)]

\* The tuple in partition's order: (removed, kept).
remove_result_swapped(rm, kp) == <<rm, kp>>

\* The tuple returned: (kept, removed).
remove_result(rm, kp) == <<kp, rm>>

RECURSIVE remove_loop(_, _, _, _)
remove_loop(it, p, rm, kp) ==
    IF it = <<>> THEN remove_result(rm, kp)
    ELSE LET r == remove_body(rm, kp, Head(it), p)
         IN  remove_loop(Tail(it), p, r.removed, r.kept)

remove(xs, p) == Returned(remove_loop(xs, p, <<>>, <<>>))

RemoveExt_remove(self, p) == remove(self, p)

\* A guard in the style of chunk's, refusing the empty input.
CallRemove_rejects_empty ==
    /\ pc = "idle"
    /\ \E xs \in Inputs, p \in Predicates :
            /\ Enter("remove", "fn", xs, 0, NoResolver, p)
            /\ IF xs # <<>> THEN Loop
               ELSE Panic("items must not be empty")

CallRemove ==
    /\ pc = "idle"
    /\ \E xs \in Inputs, p \in Predicates :
            /\ Enter("remove", "fn", xs, 0, NoResolver, p)
            /\ Loop

CallRemoveExt ==
    /\ pc = "idle"
    /\ \E xs \in Inputs, p \in Predicates :
            /\ Enter("remove", "ext", xs, 0, NoResolver, p)
            /\ Loop

RemoveRound ==
    /\ pc = "loop" /\ op = "remove"
    /\ IF iter = <<>>
       THEN /\ Return(remove_result(removed, kept))
            /\ UNCHANGED <<iter, removed, kept, taken, evals>>
       ELSE LET r == remove_body(removed, kept, Head(iter),
                                 should_remove_element)
            IN  /\ iter' = Tail(iter)
                /\ taken' = Append(taken, Head(iter))
                /\ evals' = remove_test(should_remove_element, Head(iter),
                                        evals).evals
                /\ removed' = r.removed
                /\ kept' = r.kept
                /\ UNCHANGED <<pc, ret>>
    /\ UNCHANGED <<op, method, items, size, key_resolver,
                   should_remove_element, chunks, map, seen, result>>

\* ---- uniq ----------------------------------------------------------------
\* An insert that reports membership but does not store the value.
HashSet_insert_forgets(s, item) == [inserted |-> item \notin s, set |-> s]

\* HashSet::insert: true iff the value was not yet in the set.
HashSet_insert(s, item) == [inserted |-> item \notin s, set |-> s \cup {item}]

\* A set that remembers only the previous item: repeats are caught only
\* when adjacent.
uniq_body_adjacent(sn, res, item) ==
    [seen |-> {item},
     result |-> IF item \notin sn THEN Append(res, item) ELSE res]

\* The test negated: an item is pushed when it was already seen.
uniq_body_inverted(sn, res, item) ==
    LET ins == HashSet_insert(sn, item)
    IN  [seen |-> ins.set,
         result |-> IF ~ins.inserted THEN Append(res, item) ELSE res]

\* if seen.insert(item.clone()) { result.push(item); }
uniq_body(sn, res, item) ==
    LET ins == HashSet_insert(sn, item)
    IN  [seen |-> ins.set,
         result |-> IF ins.inserted THEN Append(res, item) ELSE res]

RECURSIVE uniq_loop(_, _, _)
uniq_loop(it, sn, res) ==
    IF it = <<>> THEN res
    ELSE LET r == uniq_body(sn, res, Head(it))
         IN  uniq_loop(Tail(it), r.seen, r.result)

uniq(xs) == Returned(uniq_loop(xs, {}, <<>>))

UniqExt_uniq(self) == uniq(self)

CallUniq ==
    /\ pc = "idle"
    /\ \E xs \in Inputs :
            /\ Enter("uniq", "fn", xs, 0, NoResolver, NoPredicate)
            /\ Loop

CallUniqExt ==
    /\ pc = "idle"
    /\ \E xs \in Inputs :
            /\ Enter("uniq", "ext", xs, 0, NoResolver, NoPredicate)
            /\ Loop

UniqRound ==
    /\ pc = "loop" /\ op = "uniq"
    /\ IF iter = <<>>
       THEN /\ Return(result)
            /\ UNCHANGED <<iter, seen, result, taken>>
       ELSE LET r == uniq_body(seen, result, Head(iter))
            IN  /\ iter' = Tail(iter)
                /\ taken' = Append(taken, Head(iter))
                /\ seen' = r.seen
                /\ result' = r.result
                /\ UNCHANGED <<pc, ret>>
    /\ UNCHANGED evals
    /\ UNCHANGED <<op, method, items, size, key_resolver,
                   should_remove_element, chunks, map, removed, kept>>

Next ==
    \/ CallChunk
    \/ CallChunkExt
    \/ ChunkRound
    \/ ChunkExtRound
    \/ CallCountBy
    \/ CallCountByExt
    \/ CountByRound
    \/ CallGroupBy
    \/ CallGroupByExt
    \/ GroupByRound
    \/ GroupByExtRound
    \/ CallKeyBy
    \/ CallKeyByExt
    \/ KeyByRound
    \/ CallRemove
    \/ CallRemoveExt
    \/ RemoveRound
    \/ CallUniq
    \/ CallUniqExt
    \/ UniqRound

Spec == Init /\ [][Next]_vars

\* The bodies are straight-line sequential code: a loop that has a round to
\* run runs it.
FairSpec ==
    /\ Spec
    /\ WF_vars(ChunkRound)
    /\ WF_vars(ChunkExtRound)
    /\ WF_vars(CountByRound)
    /\ WF_vars(GroupByRound)
    /\ WF_vars(GroupByExtRound)
    /\ WF_vars(KeyByRound)
    /\ WF_vars(RemoveRound)
    /\ WF_vars(UniqRound)
\* ---- what the results are compared with ------------------------------------
Range(s) == {s[i] : i \in DOMAIN s}

RECURSIVE Concat(_)
Concat(ss) == IF ss = <<>> THEN <<>> ELSE Head(ss) \o Concat(Tail(ss))

\* The keys the resolver produces on xs, and the positions producing key k.
KeysOf(xs, f) == {f[xs[i]] : i \in DOMAIN xs}
PositionsOf(xs, f, k) == {i \in DOMAIN xs : f[xs[i]] = k}

\* The subsequence of xs whose elements the resolver sends to k.
WithKey(xs, f, k) == SelectSeq(xs, LAMBDA x : f[x] = k)

SetMax(S) == CHOOSE i \in S : \A j \in S : j <= i
SetMin(S) == CHOOSE i \in S : \A j \in S : i <= j

RECURSIVE SumOf(_, _)
SumOf(m, ks) ==
    IF ks = {} THEN 0
    ELSE LET k == CHOOSE j \in ks : TRUE IN m[k] + SumOf(m, ks \ {k})

SeqToBag(s) == [e \in Range(s) |-> Cardinality({i \in DOMAIN s : s[i] = e})]

RECURSIVE BucketsBag(_, _)
BucketsBag(m, ks) ==
    IF ks = {} THEN EmptyBag
    ELSE LET k == CHOOSE j \in ks : TRUE
         IN  SeqToBag(m[k]) (+) BucketsBag(m, ks \ {k})

FirstIndex(xs, e) == SetMin({i \in DOMAIN xs : xs[i] = e})

Finished(o) == pc = "done" /\ op = o

\* ---- chunk ---------------------------------------------------------------
\* C1: for size > 0, the chunks chunk returns, concatenated in order, are
\* exactly the input: nothing dropped, duplicated or reordered.
C1_ChunkConcat ==
    (Finished("chunk") /\ size > 0) => Concat(ret.value) = items

\* A finished call whose input splits into full chunks and a remainder.
C1_Witness ==
    /\ Finished("chunk") /\ ret.ok
    /\ Len(items) > size /\ size > 1 /\ Len(items) % size # 0
    /\ Len(ret.value) >= 2

\* C2: for size > 0, every chunk but the last has exactly `size` elements,
\* the last has between 1 and `size`, and there are no chunks at all exactly
\* when the input is empty.
C2_ChunkShape ==
    (Finished("chunk") /\ size > 0) =>
        LET cs == ret.value
        IN  /\ \A i \in 1..(Len(cs) - 1) : Len(cs[i]) = size
            /\ Len(cs) > 0 => Len(cs[Len(cs)]) \in 1..size
            /\ (Len(cs) = 0) <=> (Len(items) = 0)

\* A finished call on an input whose length is an exact multiple of size.
C2_Witness ==
    /\ Finished("chunk") /\ ret.ok
    /\ size > 1 /\ Len(items) = 2 * size
    /\ Len(ret.value) = 2

\* C3: with size = 0 both forms of chunk fail, whatever the input, with the
\* iterator untouched and no chunk built.
C3_ChunkZero ==
    (op = "chunk" /\ size = 0) =>
        /\ pc = "panicked"
        /\ ret = Panicked("size must be greater than 0")
        /\ iter = items
        /\ chunks = <<>>

\* The extension method refusing size 0 on a non-empty input.
C3_Witness ==
    /\ op = "chunk" /\ method = "ext" /\ size = 0
    /\ pc = "panicked" /\ Len(items) > 0

\* ---- count_by ------------------------------------------------------------
\* C4: count_by maps each key to the number of elements the resolver sends
\* to it, has exactly the keys the resolver produces (so no count is 0), and
\* its counts add up to the length of the input.
C4_CountBy ==
    Finished("count_by") =>
        LET m == ret.value
        IN  /\ DOMAIN m = KeysOf(items, key_resolver)
            /\ \A k \in DOMAIN m :
                   /\ m[k] = Cardinality(PositionsOf(items, key_resolver, k))
                   /\ m[k] > 0
            /\ SumOf(m, DOMAIN m) = Len(items)

\* A finished count with two keys, one of them counted more than once.
C4_Witness ==
    /\ Finished("count_by")
    /\ Cardinality(DOMAIN ret.value) >= 2
    /\ \E k \in DOMAIN ret.value : ret.value[k] >= 2

\* ---- group_by ------------------------------------------------------------
\* C5: the buckets of group_by partition the input: the bucket at k is the
\* subsequence of the elements with key k in input order, every element is
\* in exactly one bucket, and the buckets together hold the input's multiset.
C5_GroupBy ==
    Finished("group_by") =>
        LET m == ret.value
        IN  /\ DOMAIN m = KeysOf(items, key_resolver)
            /\ \A k \in DOMAIN m : m[k] = WithKey(items, key_resolver, k)
            /\ \A i \in DOMAIN items :
                   Cardinality({k \in DOMAIN m : items[i] \in Range(m[k])}) = 1
            /\ BucketsBag(m, DOMAIN m) = SeqToBag(items)

\* A finished grouping with two buckets, one holding two different elements.
C5_Witness ==
    /\ Finished("group_by")
    /\ Cardinality(DOMAIN ret.value) >= 2
    /\ \E k \in DOMAIN ret.value :
           Len(ret.value[k]) >= 2 /\ ret.value[k][1] # ret.value[k][2]

C7_Remove ==
    Finished("remove") =>
        LET k == ret.value[1]
            r == ret.value[2]
            p == should_remove_element
        IN  /\ Len(ret.value) = 2
            /\ k = SelectSeq(items, LAMBDA x : ~p[x])
            /\ r = SelectSeq(items, LAMBDA x : p[x])
            /\ \A i \in DOMAIN items :
                   (items[i] \in Range(k)) # (items[i] \in Range(r))
            /\ Len(k) + Len(r) = Len(items)

\* A finished call that kept some elements and removed more than one.
C7_Witness ==
    /\ Finished("remove")
    /\ Len(ret.value[1]) >= 1
    /\ Len(ret.value[2]) >= 2
    /\ Len(ret.value[1]) # Len(ret.value[2])

\* ---- uniq ----------------------------------------------------------------
\* C8: uniq holds each distinct element of the input exactly once, in the
\* order of the elements' first occurrences.
C8_Uniq ==
    Finished("uniq") =>
        LET u == ret.value
        IN  /\ \A i, j \in DOMAIN u : i # j => u[i] # u[j]
            /\ Range(u) = Range(items)
            /\ \A i, j \in DOMAIN u :
                   i < j => FirstIndex(items, u[i]) < FirstIndex(items, u[j])

\* A finished call whose input repeats an element after a different one.
C8_Witness ==
    /\ Finished("uniq")
    /\ Len(ret.value) >= 2
    /\ \E i, j \in DOMAIN items : i + 1 < j /\ items[i] = items[j]
                                   /\ items[i + 1] # items[i]

\* C9: uniq is idempotent: applied to its own result it returns that result.
C9_UniqIdempotent ==
    Finished("uniq") => uniq(ret.value) = ret

\* A finished call that dropped a duplicate, so that its result is not its input.
C9_Witness ==
    /\ Finished("uniq")
    /\ ret.value # items
    /\ Len(ret.value) >= 2

\* ---- the two forms -------------------------------------------------------
\* What the free function and the method make of the bound arguments.
FreeOutcome ==
    CASE op = "chunk"    -> chunk(items, size)
      [] op = "count_by" -> count_by(items, key_resolver)
      [] op = "group_by" -> group_by(items, key_resolver)
      [] op = "key_by"   -> key_by(items, key_resolver)
      [] op = "remove"   -> remove(items, should_remove_element)
      [] op = "uniq"     -> uniq(items)

ExtOutcome ==
    CASE op = "chunk"    -> ChunkExt_chunk(items, size)
      [] op = "count_by" -> CountByExt_count_by(items, key_resolver)
      [] op = "group_by" -> GroupByExt_group_by(items, key_resolver)
      [] op = "key_by"   -> KeyByExt_key_by(items, key_resolver)
      [] op = "remove"   -> RemoveExt_remove(items, should_remove_element)
      [] op = "uniq"     -> UniqExt_uniq(items)

\* C10: for each operation the method and the free function end the same
\* way on the same arguments: the same value, or both the panic.
C10_FluentEqualsFree ==
    (pc \in {"done", "panicked"}) =>
        /\ method = "ext" => SameOutcome(ret, FreeOutcome)
        /\ method = "fn"  => SameOutcome(ret, ExtOutcome)

\* The method of group_by, which has its own loop, finished on an input
\* that fills a bucket with two elements.
C10_Witness ==
    /\ Finished("group_by") /\ method = "ext"
    /\ \E k \in DOMAIN ret.value : Len(ret.value[k]) >= 2
\* ---- the operations without a failure path --------------------------------
TotalOps == {"count_by", "group_by", "key_by", "remove", "uniq"}

\* What each of them returns on the empty input.
EmptyResult(o) ==
    CASE o \in {"count_by", "group_by", "key_by"} -> HashMap_new
      [] o = "remove" -> << <<>>, <<>> >>
      [] o = "uniq"   -> <<>>

\* C11: count_by, group_by, key_by, remove and uniq never fail: a call is
\* in its loop, with a next round to run, or has returned a value; on the
\* empty input the value is the empty map, the pair of empty sequences or
\* the empty sequence.
C11_Total ==
    (op \in TotalOps) =>
        /\ pc \in {"loop", "done"}
        /\ pc = "loop" => (ret = NoRet /\ ENABLED Next)
        /\ pc = "done" =>
               /\ ret.ok
               /\ items = <<>> => ret.value = EmptyResult(op)

\* remove called on the empty input and returned.
C11_Witness ==
    /\ Finished("remove") /\ method = "fn"
    /\ items = <<>>
    /\ ret = Returned(<< <<>>, <<>> >>)

\* ---- one forward pass ------------------------------------------------------
ClosureOps == {"count_by", "group_by", "key_by", "remove"}

\* C12: every operation takes each input element from the iterator exactly
\* once, front to back, and count_by, group_by, key_by and remove call the
\* resolver or predicate exactly once on each element, in input order.
C12_SinglePass ==
    (pc \in {"loop", "done"}) =>
        /\ taken \o iter = items
        /\ op \in ClosureOps => evals = taken
        /\ pc = "done" => (taken = items /\ iter = <<>>)

\* group_by returned after calling the resolver on an input that holds an
\* element twice.
C12_Witness ==
    /\ Finished("group_by") /\ method = "fn"
    /\ Len(evals) >= 3
    /\ \E i, j \in DOMAIN items : i < j /\ items[i] = items[j]
\* ---- termination of chunk --------------------------------------------------
InChunkLoop == op = "chunk" /\ pc = "loop"

\* C13: for size > 0 the loop of chunk ends: every round either takes at
\* least one element off the iterator or finds it exhausted and returns, no
\* more chunks are pushed than the input has elements, and a call that has
\* entered the loop returns.
C13_ChunkTerminates ==
    /\ [][InChunkLoop =>
            \/ Len(iter') < Len(iter) /\ Len(taken') > Len(taken)
            \/ iter = <<>> /\ pc' = "done"]_vars
    /\ [](op = "chunk" => Len(chunks) <= Len(items))
    /\ InChunkLoop ~> (pc = "done")

\* The method's loop returned after three pushing rounds and the round that
\* found the iterator exhausted.
C13_Witness ==
    /\ Finished("chunk") /\ method = "ext"
    /\ Len(ret.value) = 3
    /\ iter = <<>>
\* ---- the three keyed operations against each other ------------------------
KeyedOps == {"count_by", "group_by", "key_by"}

\* The result of keyed operation o on the bound arguments: the value the
\* finished call returned when o is the operation called, the function's
\* value otherwise.
KeyedResult(o) ==
    IF op = o THEN ret.value
    ELSE CASE o = "count_by" -> count_by(items, key_resolver).value
           [] o = "group_by" -> group_by(items, key_resolver).value
           [] o = "key_by"   -> key_by(items, key_resolver).value

RECURSIVE FirstOccurrences(_)
FirstOccurrences(xs) ==
    IF xs = <<>> THEN <<>>
    ELSE LET front == SubSeq(xs, 1, Len(xs) - 1)
             last  == xs[Len(xs)]
         IN  IF last \in Range(front) THEN FirstOccurrences(front)
             ELSE Append(FirstOccurrences(front), last)

\* What uniq's loop has processed: the input without what is left to yield.
Processed == SubSeq(items, 1, Len(items) - Len(iter))

UniqLoopInv ==
    (op = "uniq") =>
        /\ seen = Range(result)
        /\ \A i, j \in DOMAIN result : i # j => result[i] # result[j]
        /\ result = FirstOccurrences(Processed)

UniqPush ==
    (op = "uniq" /\ pc = "loop" /\ iter # <<>>) =>
        /\ (result' = Append(result, Head(iter))) <=> (Head(iter) \notin seen)
        /\ (Head(iter) \in seen) => result' = result

\* C15: at every step of uniq's loop `seen` holds exactly the elements of the
\* output so far, the output has no repeats and is the first-occurrence
\* sequence of the processed prefix; an element is pushed exactly when it
\* was not in `seen` when the loop reached it.
C15_UniqLoop == []UniqLoopInv /\ [][UniqPush]_vars

\* In the middle of the loop, with a repeat already skipped and input left.
C15_Witness ==
    /\ op = "uniq" /\ pc = "loop"
    /\ iter # <<>>
    /\ Len(result) >= 2
    /\ Len(result) < Len(items) - Len(iter)
====
